---- MODULE Spec2Model ----
(***************************************************************************)
(* Model of configuration.go (package govh): Client.loadConfig resolves    *)
(* the endpoint, application key, application secret and consumer key of   *)
(* a Client from the caller's values, the OVH_* environment variables and  *)
(* three optional ini files.                                               *)
(*                                                                         *)
(* Go strings are modelled as tuples of one-character strings, so that     *)
(* strings.Contains(endpointName, "/") is computed on the characters.      *)
(* The empty Go string is the empty tuple.                                 *)
(*                                                                         *)
(* gopkg.in/ini.v1 is an external library.  An ini.File is modelled as a   *)
(* function from <<section, key>> to the key's value.  The model follows   *)
(* the library in three places that the code relies on:                    *)
(*   - File.Append reloads the sources in the order they were appended and *)
(*     a key read again in the same section replaces the earlier value;    *)
(*   - File.Section(name) never returns nil: it returns the section, or a  *)
(*     new empty one (the name "" stands for the section DEFAULT);         *)
(*   - Section.Key(name) never returns nil: it returns the key, or a new   *)
(*     key whose value is "".                                              *)
(* Files are well-formed and do not change while a call runs; lookups in   *)
(* parent sections of a dotted section name and %(name)s value             *)
(* substitution of the library are not modelled.                           *)
(***************************************************************************)
EXTENDS Integers, Sequences, FiniteSets, TLC

VARIABLES
    env,        \* the process environment: variable name -> value ("" when unset)
    files,      \* content of the three configuration files: path -> ini content
    access,     \* path -> whether unix.Access(path, R_OK) succeeds
    homeErr,    \* whether user.Current() fails
    Endpoints,  \* the package's table of endpoint names
    proc,       \* per Client: its fields and the frame of its loadConfig call
    hist        \* per Client: the hint and the fields at entry of its last call,
                \* and the outcome of the call before it

vars == <<env, files, access, homeErr, Endpoints, proc, hist>>

------------------------------------------------------------------------------
(* Bounds *)

MaxCalls == 2     \* loadConfig calls per Client under Spec

NumClients == 2   \* Clients running loadConfig concurrently under SpecConc

------------------------------------------------------------------------------
(* Strings *)

Empty == <<>>

Slash == "/"

OvhEu == <<"o","v","h","-","e","u">>

OvhCa == <<"o","v","h","-","c","a">>

Bogus == <<"b","o","g","u","s">>

\* the URLs are shortened to their distinguishing part
EuUrl == <<"/","/","e","u">>

CaUrl == <<"/","/","c","a">>

DefaultSectionName == <<"d","e","f","a","u","l","t">>

DefaultEndpointName == OvhEu

\* ini.DefaultSection: the section of the keys that precede any [section] line
IniDefaultSection == <<"D","E","F","A","U","L","T">>

\* strings.Contains(s, "/")
Contains(s, ch) == \E k \in 1..Len(s) : s[k] = ch

\* strings.ToUpper on the key names the code passes
ToUpper(name) ==
    CASE name = "endpoint"           -> "ENDPOINT"
      [] name = "application_key"    -> "APPLICATION_KEY"
      [] name = "application_secret" -> "APPLICATION_SECRET"
      [] name = "consumer_key"       -> "CONSUMER_KEY"

EnvNames == {"OVH_ENDPOINT", "OVH_APPLICATION_KEY", "OVH_APPLICATION_SECRET", "OVH_CONSUMER_KEY"}

\* os.Getenv: "" for a variable that is unset
Getenv(name) == IF name \in DOMAIN env THEN env[name] ELSE Empty

------------------------------------------------------------------------------
(* The configuration files *)

systemConfigPath == "/etc/ovh.conf"

userConfigPath == "/.ovh.conf"

localConfigPath == "./ovh.conf"

Paths == {systemConfigPath, userConfigPath, localConfigPath}

\* ini.Empty()
EmptyCfg == [p \in {} |-> Empty]

\* the file system as a call sees it
FileSystem == [files |-> files, access |-> access, homeErr |-> homeErr]

\* cfg.Append(path) keeping the value already loaded
CfgAppendFirstWins(fsys, cfg, path) ==
    [p \in DOMAIN cfg \cup DOMAIN fsys.files[path] |->
        IF p \in DOMAIN cfg THEN cfg[p] ELSE fsys.files[path][p]]

\* cfg.Append(path): the entries of the file are read over those already loaded
CfgAppend(fsys, cfg, path) ==
    [p \in DOMAIN cfg \cup DOMAIN fsys.files[path] |->
        IF p \in DOMAIN fsys.files[path] THEN fsys.files[path][p] ELSE cfg[p]]

\* line 35 without the test of line 34
appendConfigurationFileNoAccessCheck(fsys, cfg, path) == CfgAppend(fsys, cfg, path)

\* unix.Access(path, unix.R_OK) == nil, then cfg.Append(path)
appendConfigurationFile(fsys, cfg, path) ==
    IF fsys.access[path] THEN CfgAppend(fsys, cfg, path) ELSE cfg

\* lines 57-63: system, then user (if currentUserHome succeeds), then local
LoadFiles(fsys) ==
    LET c1 == appendConfigurationFile(fsys, EmptyCfg, systemConfigPath)
        c2 == IF ~fsys.homeErr
              THEN appendConfigurationFile(fsys, c1, userConfigPath)
              ELSE c1
    IN  appendConfigurationFile(fsys, c2, localConfigPath)

\* cfg.Section(section): the library returns the named section and creates it
\* when it does not exist, so the result is never nil; "" names the section DEFAULT
Section(cfg, section) ==
    [nil |-> FALSE, name |-> IF section = Empty THEN IniDefaultSection ELSE section]

\* fromSection.Key(name): the library returns the key and creates it with the
\* value "" when it does not exist, so the result is never nil
Key(cfg, fromSection, name) ==
    [nil |-> FALSE,
     value |-> IF <<fromSection.name, name>> \in DOMAIN cfg
               THEN cfg[<<fromSection.name, name>>]
               ELSE Empty]

getConfigValueFileFirst(cfg, section, name, def) ==
    LET fromSection == Section(cfg, section)
        fromSectionKey == Key(cfg, fromSection, name)
    IN  IF Len(fromSectionKey.value) > 0
        THEN fromSectionKey.value
        ELSE Getenv("OVH_" \o ToUpper(name))

getConfigValue(cfg, section, name, def) ==
    LET fromEnv == Getenv("OVH_" \o ToUpper(name))
        fromSection == Section(cfg, section)
        fromSectionKey == Key(cfg, fromSection, name)
    IN  IF Len(fromEnv) > 0 THEN fromEnv
        ELSE IF fromSection.nil THEN def
        ELSE IF fromSectionKey.nil THEN def
        ELSE fromSectionKey.value

\* Endpoints[endpointName]: a Go map yields "" for a missing key
EndpointsLookup(name) ==
    IF name \in DOMAIN Endpoints THEN Endpoints[name] ELSE Empty

------------------------------------------------------------------------------
(* loadConfig, statement by statement.  proc[i] holds the fields of Client i  *)
(* (c) and the frame of its call: the position (pc), the parameter            *)
(* endpointName, the local cfg and the error returned (err).                  *)

NoError == "nil"

UnknownEndpoint == "UnknownEndpoint"

MissingApplicationKey == "MissingApplicationKey"

MissingApplicationSecret == "MissingApplicationSecret"

\* entry of loadConfig(endpointName)
Call(p, i, hint) ==
    [p EXCEPT ![i].pc = "load", ![i].endpointName = hint,
              ![i].cfg = EmptyCfg, ![i].err = "pending"]

\* lines 57-63
StepLoad(p, i) ==
    [p EXCEPT ![i].cfg = LoadFiles(FileSystem), ![i].pc = "name"]

\* the assignment of line 67 made to a variable that all calls share
StepNameShared(p, i) ==
    IF p[i].endpointName = Empty
    THEN [j \in DOMAIN p |->
            [p[j] EXCEPT
                !.endpointName = getConfigValue(p[i].cfg, DefaultSectionName,
                                                "endpoint", DefaultEndpointName),
                !.pc = IF j = i THEN "appKey" ELSE @]]
    ELSE [p EXCEPT ![i].pc = "appKey"]

\* an empty hint replaced by the endpoint the Client already holds
StepNameFromClient(p, i) ==
    IF p[i].endpointName = Empty
    THEN [p EXCEPT
            ![i].endpointName =
                IF p[i].c.endpoint # Empty
                THEN p[i].c.endpoint
                ELSE getConfigValue(p[i].cfg, DefaultSectionName, "endpoint",
                                    DefaultEndpointName),
            ![i].pc = "appKey"]
    ELSE [p EXCEPT ![i].pc = "appKey"]

\* lines 66-68
StepName(p, i) ==
    IF p[i].endpointName = Empty
    THEN [p EXCEPT
            ![i].endpointName = getConfigValue(p[i].cfg, DefaultSectionName,
                                               "endpoint", DefaultEndpointName),
            ![i].pc = "appKey"]
    ELSE [p EXCEPT ![i].pc = "appKey"]

\* lines 70-72
StepAppKey(p, i) ==
    IF p[i].c.appKey = Empty
    THEN [p EXCEPT
            ![i].c.appKey = getConfigValue(p[i].cfg, p[i].endpointName,
                                           "application_key", Empty),
            ![i].pc = "appSecret"]
    ELSE [p EXCEPT ![i].pc = "appSecret"]

\* lines 74-76
StepAppSecret(p, i) ==
    IF p[i].c.appSecret = Empty
    THEN [p EXCEPT
            ![i].c.appSecret = getConfigValue(p[i].cfg, p[i].endpointName,
                                              "application_secret", Empty),
            ![i].pc = "consumerKey"]
    ELSE [p EXCEPT ![i].pc = "consumerKey"]

\* line 79 without the test of line 78
StepConsumerKeyAlways(p, i) ==
    [p EXCEPT
        ![i].c.consumerKey = getConfigValue(p[i].cfg, p[i].endpointName,
                                            "consumer_key", Empty),
        ![i].pc = "endpoint"]

\* lines 78-80
StepConsumerKey(p, i) ==
    IF p[i].c.consumerKey = Empty
    THEN [p EXCEPT
            ![i].c.consumerKey = getConfigValue(p[i].cfg, p[i].endpointName,
                                                "consumer_key", Empty),
            ![i].pc = "endpoint"]
    ELSE [p EXCEPT ![i].pc = "endpoint"]

\* line 86 without the test of line 83
StepEndpointTableOnly(p, i) ==
    [p EXCEPT ![i].c.endpoint = EndpointsLookup(p[i].endpointName),
              ![i].pc = "validate"]

\* lines 83-87
StepEndpoint(p, i) ==
    IF Contains(p[i].endpointName, Slash)
    THEN [p EXCEPT ![i].c.endpoint = p[i].endpointName, ![i].pc = "validate"]
    ELSE [p EXCEPT ![i].c.endpoint = EndpointsLookup(p[i].endpointName),
                   ![i].pc = "validate"]

\* lines 90-100 with the tests of lines 93 and 96 exchanged
StepValidateSecretFirst(p, i) ==
    [p EXCEPT
        ![i].err = IF p[i].c.endpoint = Empty THEN UnknownEndpoint
                   ELSE IF p[i].c.appSecret = Empty THEN MissingApplicationSecret
                   ELSE IF p[i].c.appKey = Empty THEN MissingApplicationKey
                   ELSE NoError,
        ![i].pc = "done"]

\* lines 90-100
StepValidate(p, i) ==
    [p EXCEPT
        ![i].err = IF p[i].c.endpoint = Empty THEN UnknownEndpoint
                   ELSE IF p[i].c.appKey = Empty THEN MissingApplicationKey
                   ELSE IF p[i].c.appSecret = Empty THEN MissingApplicationSecret
                   ELSE NoError,
        ![i].pc = "done"]

\* the statement at the position of Client i's call
Step(p, i) ==
    CASE p[i].pc = "load"        -> StepLoad(p, i)
      [] p[i].pc = "name"        -> StepName(p, i)
      [] p[i].pc = "appKey"      -> StepAppKey(p, i)
      [] p[i].pc = "appSecret"   -> StepAppSecret(p, i)
      [] p[i].pc = "consumerKey" -> StepConsumerKey(p, i)
      [] p[i].pc = "endpoint"    -> StepEndpoint(p, i)
      [] p[i].pc = "validate"    -> StepValidate(p, i)

RECURSIVE Run(_, _)
\* the call of Client i run to its return
Run(p, i) == IF p[i].pc = "done" THEN p ELSE Run(Step(p, i), i)

\* loadConfig that stores what it resolved only when it returns nil
loadConfigCommitOnSuccess(p, i, hint) ==
    LET r == Run(Call(p, i, hint), i)
    IN  IF r[i].err = NoError THEN r ELSE [r EXCEPT ![i].c = p[i].c]

\* loadConfig(hint) on Client i, from entry to return
loadConfig(p, i, hint) == Run(Call(p, i, hint), i)

------------------------------------------------------------------------------
(* Inputs: the environments, file contents, tables, Clients and hints of the  *)
(* calls.                                                                      *)

\* the ini content holding the entries <<section, key, value>> of S
FileOf(S) ==
    [p \in {<<e[1], e[2]>> : e \in S} |->
        (CHOOSE e \in S : <<e[1], e[2]>> = p)[3]]

\* every file marks its values with a letter of its own
TagOf(path) ==
    CASE path = systemConfigPath -> "s"
      [] path = userConfigPath   -> "u"
      [] path = localConfigPath  -> "l"

FileContents(path) ==
    LET t == TagOf(path)
    IN  { FileOf({}),
          FileOf({ <<DefaultSectionName, "endpoint", OvhCa>>,
                   <<OvhCa, "application_key", <<"k", t>> >>,
                   <<CaUrl, "application_key", <<"k", t>> >>,
                   <<CaUrl, "application_secret", <<"s", t>> >> }),
          FileOf({ <<OvhEu, "application_key", <<"k", t>> >>,
                   <<OvhEu, "application_secret", <<"s", t>> >>,
                   <<OvhEu, "consumer_key", <<"c", t>> >>,
                   <<OvhCa, "application_secret", <<"s", t>> >> }),
          FileOf({ <<DefaultSectionName, "endpoint", CaUrl>>,
                   <<OvhEu, "application_secret", Empty>>,
                   <<IniDefaultSection, "application_key", <<"k", t>> >> }) }

SetEnv(S) == [n \in EnvNames |-> IF \E e \in S : e[1] = n
                                 THEN (CHOOSE e \in S : e[1] = n)[2]
                                 ELSE Empty]

Environments ==
    { SetEnv({}),
      SetEnv({ <<"OVH_ENDPOINT", Bogus>>, <<"OVH_APPLICATION_KEY", <<"k", "e">> >> }),
      SetEnv({ <<"OVH_APPLICATION_KEY", <<"k", "e">> >>,
               <<"OVH_APPLICATION_SECRET", <<"s", "e">> >> }),
      SetEnv({ <<"OVH_ENDPOINT", CaUrl>>, <<"OVH_CONSUMER_KEY", <<"c", "e">> >> }) }

\* the table of the package, and the same table with a name that holds a "/"
EndpointTable == (OvhEu :> EuUrl) @@ (OvhCa :> CaUrl)

EndpointTables == { EndpointTable, EndpointTable @@ (CaUrl :> EuUrl) }

Hints == { Empty, OvhEu, CaUrl }

\* a Client as its constructor leaves it: the caller's values, no endpoint yet
NewClient(appKey, appSecret, consumerKey) ==
    [c |-> [endpoint |-> Empty, appKey |-> appKey, appSecret |-> appSecret,
            consumerKey |-> consumerKey],
     pc |-> "idle", endpointName |-> Empty, cfg |-> EmptyCfg, err |-> "none"]

NewHist(cl) ==
    [calls |-> 0, hint |-> Empty, before |-> cl.c, prevErr |-> "none",
     prevHint |-> Empty, overlap |-> FALSE]

\* the history of Client i as it enters loadConfig(hint)
Remember(i, hint) ==
    [hist EXCEPT ![i] = [calls |-> @.calls + 1, hint |-> hint,
                         before |-> proc[i].c, prevErr |-> proc[i].err,
                         prevHint |-> @.hint,
                         overlap |-> \E j \in DOMAIN proc \ {i} :
                                        proc[j].pc \notin {"idle", "done"}]]

------------------------------------------------------------------------------
(* Spec: one Client, each call of loadConfig run from entry to return *)

Init ==
    /\ env \in Environments
    /\ files \in { f \in [Paths -> UNION {FileContents(q) : q \in Paths}] :
                     /\ \A q \in Paths : f[q] \in FileContents(q)
                     /\ <<DefaultSectionName, "endpoint">>
                            \notin DOMAIN f[userConfigPath] }
    /\ access \in [Paths -> BOOLEAN]
    /\ homeErr \in BOOLEAN
    /\ Endpoints \in EndpointTables
    /\ \E ak \in {Empty, <<"k", "x">>}, as \in {Empty, <<"s", "x">>} :
          \E ck \in {Empty, <<"c", "x">>} :
              /\ (ck = Empty) = (as = Empty)
              /\ proc = [i \in {1} |-> NewClient(ak, as, ck)]
    /\ hist = [i \in DOMAIN proc |-> NewHist(proc[i])]

LoadConfig(i, hint) ==
    /\ proc[i].pc \in {"idle", "done"}
    /\ hist[i].calls < MaxCalls
    /\ proc' = loadConfig(proc, i, hint)
    /\ hist' = Remember(i, hint)
    /\ UNCHANGED <<env, files, access, homeErr, Endpoints>>

Next == \E i \in DOMAIN proc : \E hint \in Hints : LoadConfig(i, hint)

Spec == Init /\ [][Next]_vars

------------------------------------------------------------------------------
(* SpecConc: several Clients, each calling loadConfig once, the statements of *)
(* their calls interleaved.                                                    *)

InitConc ==
    /\ env \in { e \in Environments : e["OVH_APPLICATION_KEY"] = Empty }
    /\ files \in { f \in [Paths -> UNION {FileContents(q) : q \in Paths}] :
                     /\ f[systemConfigPath] \in FileContents(systemConfigPath)
                     /\ f[userConfigPath] = FileOf({})
                     /\ f[localConfigPath] = FileOf({}) }
    /\ access = [q \in Paths |-> TRUE]
    /\ homeErr = FALSE
    /\ Endpoints = EndpointTable
    /\ proc = [i \in 1..NumClients |-> NewClient(Empty, Empty, Empty)]
    /\ hist = [i \in DOMAIN proc |-> NewHist(proc[i])]

Enter(i, hint) ==
    /\ proc[i].pc = "idle"
    /\ proc' = Call(proc, i, hint)
    /\ hist' = Remember(i, hint)
    /\ UNCHANGED <<env, files, access, homeErr, Endpoints>>

DoLoad(i) ==
    /\ proc[i].pc = "load"
    /\ proc' = StepLoad(proc, i)
    /\ UNCHANGED <<env, files, access, homeErr, Endpoints, hist>>

DoName(i) ==
    /\ proc[i].pc = "name"
    /\ proc' = StepName(proc, i)
    /\ UNCHANGED <<env, files, access, homeErr, Endpoints, hist>>

DoAppKey(i) ==
    /\ proc[i].pc = "appKey"
    /\ proc' = StepAppKey(proc, i)
    /\ UNCHANGED <<env, files, access, homeErr, Endpoints, hist>>

DoAppSecret(i) ==
    /\ proc[i].pc = "appSecret"
    /\ proc' = StepAppSecret(proc, i)
    /\ UNCHANGED <<env, files, access, homeErr, Endpoints, hist>>

DoConsumerKey(i) ==
    /\ proc[i].pc = "consumerKey"
    /\ proc' = StepConsumerKey(proc, i)
    /\ UNCHANGED <<env, files, access, homeErr, Endpoints, hist>>

DoEndpoint(i) ==
    /\ proc[i].pc = "endpoint"
    /\ proc' = StepEndpoint(proc, i)
    /\ UNCHANGED <<env, files, access, homeErr, Endpoints, hist>>

DoValidate(i) ==
    /\ proc[i].pc = "validate"
    /\ proc' = StepValidate(proc, i)
    /\ UNCHANGED <<env, files, access, homeErr, Endpoints, hist>>

NextConc ==
    \/ \E i \in DOMAIN proc : \E hint \in Hints : Enter(i, hint)
    \/ \E i \in DOMAIN proc : DoLoad(i)
    \/ \E i \in DOMAIN proc : DoName(i)
    \/ \E i \in DOMAIN proc : DoAppKey(i)
    \/ \E i \in DOMAIN proc : DoAppSecret(i)
    \/ \E i \in DOMAIN proc : DoConsumerKey(i)
    \/ \E i \in DOMAIN proc : DoEndpoint(i)
    \/ \E i \in DOMAIN proc : DoValidate(i)

SpecConc == InitConc /\ [][NextConc]_vars

------------------------------------------------------------------------------
(* Vocabulary of the properties, stated on the inputs and not on the steps.   *)

Returned(i) == proc[i].pc = "done"

\* a file the call can read: accessible, and for the user file, home resolved
Readable(path) == access[path] /\ (path = userConfigPath => ~homeErr)

Defines(path, section, key) == <<section, key>> \in DOMAIN files[path]

FileDefined(section, key) ==
    \E q \in Paths : Readable(q) /\ Defines(q, section, key)

\* the value of the highest-priority readable file that defines (section, key):
\* local over user-home over system-wide
TopFileValue(section, key) ==
    IF Readable(localConfigPath) /\ Defines(localConfigPath, section, key)
    THEN files[localConfigPath][<<section, key>>]
    ELSE IF Readable(userConfigPath) /\ Defines(userConfigPath, section, key)
    THEN files[userConfigPath][<<section, key>>]
    ELSE files[systemConfigPath][<<section, key>>]

CredentialKeys == {"application_key", "application_secret", "consumer_key"}

EnvOf(key) ==
    CASE key = "endpoint"           -> env["OVH_ENDPOINT"]
      [] key = "application_key"    -> env["OVH_APPLICATION_KEY"]
      [] key = "application_secret" -> env["OVH_APPLICATION_SECRET"]
      [] key = "consumer_key"       -> env["OVH_CONSUMER_KEY"]

FieldOf(c, key) ==
    CASE key = "application_key"    -> c.appKey
      [] key = "application_secret" -> c.appSecret
      [] key = "consumer_key"       -> c.consumerKey

\* the endpoint a name stands for
EndpointFor(name) ==
    IF Contains(name, Slash) THEN name
    ELSE IF name \in DOMAIN Endpoints THEN Endpoints[name] ELSE Empty

------------------------------------------------------------------------------
\* C1: a value the caller supplied is never overridden: each of appKey,
\* appSecret and consumerKey that is non-empty when loadConfig is called has
\* the same value when it returns, with or without an error, and a non-empty
\* endpoint hint alone determines the endpoint name used and so the endpoint.
C1_ExplicitNeverOverridden ==
    \A i \in DOMAIN proc :
        Returned(i) =>
            /\ \A key \in CredentialKeys :
                  FieldOf(hist[i].before, key) # Empty
                      => FieldOf(proc[i].c, key) = FieldOf(hist[i].before, key)
            /\ hist[i].hint # Empty
                  => /\ proc[i].endpointName = hist[i].hint
                     /\ proc[i].c.endpoint = EndpointFor(hist[i].hint)

\* the caller set the consumer key and gave a hint, while the environment and a
\* readable file hold other values for both
C1_Witness ==
    \E i \in DOMAIN proc :
        /\ Returned(i) /\ hist[i].calls = 1
        /\ hist[i].before.consumerKey = <<"c", "x">>
        /\ proc[i].c.consumerKey = <<"c", "x">>
        /\ env["OVH_CONSUMER_KEY"] = <<"c", "e">>
        /\ hist[i].hint = OvhEu
        /\ env["OVH_ENDPOINT"] = CaUrl
        /\ FileDefined(OvhEu, "consumer_key")
        /\ FileDefined(DefaultSectionName, "endpoint")

\* C2: for a field the caller did not set, a non-empty OVH_<FIELD> is the
\* resolved value whatever the files define; an unset or empty variable has
\* no effect and the merged file value is used.
C2_EnvOverridesFiles ==
    \A i \in DOMAIN proc :
        Returned(i) =>
            /\ \A key \in CredentialKeys :
                  FieldOf(hist[i].before, key) = Empty =>
                      /\ EnvOf(key) # Empty
                            => FieldOf(proc[i].c, key) = EnvOf(key)
                      /\ (EnvOf(key) = Empty /\ FileDefined(proc[i].endpointName, key))
                            => FieldOf(proc[i].c, key)
                                  = TopFileValue(proc[i].endpointName, key)
            /\ hist[i].hint = Empty =>
                  /\ EnvOf("endpoint") # Empty
                        => proc[i].endpointName = EnvOf("endpoint")
                  /\ (EnvOf("endpoint") = Empty
                        /\ FileDefined(DefaultSectionName, "endpoint"))
                        => proc[i].endpointName
                              = TopFileValue(DefaultSectionName, "endpoint")

\* the environment gives the application key and the endpoint, and readable
\* files define other values for both
C2_Witness ==
    \E i \in DOMAIN proc :
        /\ Returned(i) /\ hist[i].calls = 1
        /\ hist[i].hint = Empty
        /\ hist[i].before.appKey = Empty
        /\ env["OVH_ENDPOINT"] = Bogus
        /\ FileDefined(DefaultSectionName, "endpoint")
        /\ env["OVH_APPLICATION_KEY"] = <<"k", "e">>
        /\ proc[i].c.appKey = <<"k", "e">>
        /\ proc[i].c.appSecret = Empty
        /\ \E q \in Paths : Readable(q) /\ Defines(q, OvhCa, "application_key")

\* C3: the files are merged last-wins per (section, key) in the order
\* system-wide, user-home, local: the merged configuration holds, for every
\* key a readable file defines, the value of the highest-priority file that
\* defines it, and a field taken from the files gets that value.
C3_LastWinsMerge ==
    \A i \in DOMAIN proc :
        Returned(i) =>
            /\ DOMAIN proc[i].cfg
                  = UNION {DOMAIN files[q] : q \in {r \in Paths : Readable(r)}}
            /\ \A sk \in DOMAIN proc[i].cfg :
                  proc[i].cfg[sk] = TopFileValue(sk[1], sk[2])
            /\ \A key \in CredentialKeys :
                  (/\ FieldOf(hist[i].before, key) = Empty
                   /\ EnvOf(key) = Empty
                   /\ FileDefined(proc[i].endpointName, key))
                      => FieldOf(proc[i].c, key)
                            = TopFileValue(proc[i].endpointName, key)

\* the system and the user file both define the application key of the section
\* and the local file does not: the user value is used; all three files define
\* the application secret and the local value (an empty one) is used
C3_Witness ==
    \E i \in DOMAIN proc :
        /\ Returned(i) /\ hist[i].calls = 1
        /\ \A q \in Paths : Readable(q)
        /\ proc[i].endpointName = OvhEu
        /\ hist[i].before.appKey = Empty /\ hist[i].before.appSecret = Empty
        /\ EnvOf("application_key") = Empty /\ EnvOf("application_secret") = Empty
        /\ Defines(systemConfigPath, OvhEu, "application_key")
        /\ Defines(userConfigPath, OvhEu, "application_key")
        /\ ~Defines(localConfigPath, OvhEu, "application_key")
        /\ proc[i].c.appKey = <<"k", "u">>
        /\ \A q \in Paths : Defines(q, OvhEu, "application_secret")
        /\ files[userConfigPath][<<OvhEu, "application_secret">>] = <<"s", "u">>
        /\ proc[i].c.appSecret = files[localConfigPath][<<OvhEu, "application_secret">>]
        /\ proc[i].c.appSecret = Empty


\* the file system in which every file the call cannot read is an empty file
\* that it can read
UnreadableAsEmpty ==
    [files |-> [q \in Paths |-> IF Readable(q) THEN files[q] ELSE FileOf({})],
     access |-> [q \in Paths |-> TRUE],
     homeErr |-> FALSE]

\* Client i's last call, run alone on the configuration loaded from fsys
ResultOn(fsys, i) ==
    LET entered == Call([j \in {i} |-> [proc[i] EXCEPT !.c = hist[i].before]],
                        i, hist[i].hint)
        loaded == [entered EXCEPT ![i].cfg = LoadFiles(fsys), ![i].pc = "name"]
    IN  Run(loaded, i)[i]

\* C4: a missing or unreadable file contributes nothing and causes no error,
\* each file being loaded independently: loadConfig returns what it would
\* return if the files it cannot read were empty, and it fails only when a
\* required field remains empty or the endpoint name is unrecognized.
C4_UnreadableFileIsEmpty ==
    \A i \in DOMAIN proc :
        Returned(i) =>
            /\ proc[i].c = ResultOn(UnreadableAsEmpty, i).c
            /\ proc[i].err = ResultOn(UnreadableAsEmpty, i).err
            /\ proc[i].err # NoError =>
                  \/ proc[i].c.appKey = Empty
                  \/ proc[i].c.appSecret = Empty
                  \/ (/\ ~Contains(proc[i].endpointName, Slash)
                      /\ proc[i].endpointName \notin DOMAIN Endpoints)

\* the system file is unreadable and the home directory unknown, both files
\* define the credentials of the section, and the local file alone supplies them
C4_Witness ==
    \E i \in DOMAIN proc :
        /\ Returned(i) /\ hist[i].calls = 1
        /\ ~access[systemConfigPath] /\ homeErr /\ access[localConfigPath]
        /\ hist[i].before.appKey = Empty /\ hist[i].before.appSecret = Empty
        /\ proc[i].endpointName = OvhEu
        /\ Defines(systemConfigPath, OvhEu, "application_key")
        /\ Defines(userConfigPath, OvhEu, "application_key")
        /\ Defines(localConfigPath, OvhEu, "application_key")
        /\ proc[i].c.appKey = <<"k", "l">>
        /\ proc[i].err = NoError

\* C5: with an empty hint the endpoint name is OVH_ENDPOINT if set, otherwise
\* the files' value of (default, endpoint) if a file defines it, otherwise
\* "ovh-eu", whose section and table entry are then used.
C5_DefaultEndpointName ==
    \A i \in DOMAIN proc :
        (Returned(i) /\ hist[i].hint = Empty) =>
            /\ proc[i].endpointName =
                  IF EnvOf("endpoint") # Empty THEN EnvOf("endpoint")
                  ELSE IF FileDefined(DefaultSectionName, "endpoint")
                       THEN TopFileValue(DefaultSectionName, "endpoint")
                       ELSE DefaultEndpointName
            /\ proc[i].c.endpoint = EndpointFor(proc[i].endpointName)

\* C6: the outcome is decided by the final endpoint, appKey and appSecret in
\* that order: UnknownEndpoint when the name holds no "/" and is no key of the
\* table, otherwise MissingApplicationKey when appKey is empty, otherwise
\* MissingApplicationSecret when appSecret is empty, otherwise nil with all
\* three non-empty; an empty consumerKey causes no error.
C6_ValidationOrder ==
    \A i \in DOMAIN proc :
        Returned(i) =>
            /\ proc[i].err =
                  IF /\ ~Contains(proc[i].endpointName, Slash)
                     /\ proc[i].endpointName \notin DOMAIN Endpoints
                  THEN UnknownEndpoint
                  ELSE IF proc[i].c.appKey = Empty THEN MissingApplicationKey
                  ELSE IF proc[i].c.appSecret = Empty THEN MissingApplicationSecret
                  ELSE NoError
            /\ proc[i].err = NoError =>
                  /\ proc[i].c.endpoint # Empty
                  /\ proc[i].c.appKey # Empty
                  /\ proc[i].c.appSecret # Empty

\* a known endpoint, neither application key nor secret, no consumer key
C6_Witness ==
    \E i \in DOMAIN proc :
        /\ Returned(i)
        /\ proc[i].endpointName = OvhEu
        /\ proc[i].c.appKey = Empty
        /\ proc[i].c.appSecret = Empty
        /\ proc[i].c.consumerKey = Empty
        /\ proc[i].err = MissingApplicationKey

\* C7: an endpoint name that holds a "/" is the endpoint, verbatim, whatever
\* the table holds, and never yields UnknownEndpoint; any other name yields its
\* table entry.
C7_UrlBypassesTable ==
    \A i \in DOMAIN proc :
        Returned(i) =>
            IF Contains(proc[i].endpointName, Slash)
            THEN /\ proc[i].c.endpoint = proc[i].endpointName
                 /\ proc[i].err # UnknownEndpoint
            ELSE proc[i].c.endpoint = EndpointsLookup(proc[i].endpointName)

\* the name is a URL that the table maps to another URL
C7_Witness ==
    \E i \in DOMAIN proc :
        /\ Returned(i)
        /\ proc[i].endpointName = CaUrl
        /\ CaUrl \in DOMAIN Endpoints
        /\ Endpoints[CaUrl] # CaUrl
        /\ proc[i].c.endpoint = CaUrl


\* the value resolved for a key read in the section of a name: the environment
\* variable if it is not empty, otherwise the files' value, otherwise ""
ResolvedValue(name, key) ==
    LET section == IF name = Empty THEN IniDefaultSection ELSE name
    IN  IF EnvOf(key) # Empty THEN EnvOf(key)
        ELSE IF FileDefined(section, key) THEN TopFileValue(section, key)
        ELSE Empty

\* C8 as stated: when loadConfig returns an error, endpoint, appKey, appSecret
\* and consumerKey hold the values they held before the call.
C8_FailureLeavesClientUnchanged ==
    \A i \in DOMAIN proc :
        (Returned(i) /\ proc[i].err # NoError) => proc[i].c = hist[i].before

\* C8 as amended: when loadConfig returns an error, each of appKey, appSecret
\* and consumerKey that was non-empty before the call is unchanged, each that
\* was empty holds the value resolved from the environment and the files, and
\* endpoint holds the endpoint of the name used ("" for UnknownEndpoint).
C8_FailureLeavesResolvedValues ==
    \A i \in DOMAIN proc :
        (Returned(i) /\ proc[i].err # NoError) =>
            /\ \A key \in CredentialKeys :
                  FieldOf(proc[i].c, key) =
                      IF FieldOf(hist[i].before, key) # Empty
                      THEN FieldOf(hist[i].before, key)
                      ELSE ResolvedValue(proc[i].endpointName, key)
            /\ proc[i].c.endpoint = EndpointFor(proc[i].endpointName)

\* the call fails for want of an application secret and leaves the application
\* key and the endpoint it resolved on the Client
C8_Witness ==
    \E i \in DOMAIN proc :
        /\ Returned(i) /\ hist[i].calls = 1
        /\ proc[i].err = MissingApplicationSecret
        /\ hist[i].before.appKey = Empty
        /\ proc[i].c.appKey # Empty
        /\ proc[i].c.endpoint # Empty

\* C10: a call of loadConfig that follows another on the same Client with the
\* same hint returns what the earlier call returned and leaves the fields as
\* the earlier call left them.
C10_Idempotent ==
    \A i \in DOMAIN proc :
        (Returned(i) /\ hist[i].calls >= 2 /\ hist[i].hint = hist[i].prevHint) =>
            /\ proc[i].err = hist[i].prevErr
            /\ proc[i].c = hist[i].before

\* a second call with an empty hint on a Client whose first call took the
\* endpoint and the application key from the files and failed
C10_Witness ==
    \E i \in DOMAIN proc :
        /\ Returned(i) /\ hist[i].calls = 2
        /\ hist[i].hint = Empty /\ hist[i].prevHint = Empty
        /\ EnvOf("endpoint") = Empty /\ EnvOf("application_key") = Empty
        /\ proc[i].endpointName = OvhCa
        /\ proc[i].c.appKey # Empty /\ proc[i].c.appKey # <<"k", "x">>
        /\ proc[i].err = MissingApplicationSecret
        /\ hist[i].prevErr = MissingApplicationSecret

\* the result of Client i's call run alone from the fields it entered with
Alone(i) ==
    loadConfig([j \in {i} |-> [proc[i] EXCEPT !.c = hist[i].before]],
               i, hist[i].hint)[i]

\* C9: loadConfig calls on distinct Clients, their statements interleaved in
\* any order, each return the error and leave the fields that the call would
\* alone; a statement of one call changes no other Client or frame, nor the
\* environment, the files or the table.
C9_ConcurrentCallsAsAlone ==
    /\ [](\A i \in DOMAIN proc :
            Returned(i) => /\ proc[i].c = Alone(i).c
                           /\ proc[i].err = Alone(i).err)
    /\ [][/\ \E i \in DOMAIN proc : \A j \in DOMAIN proc \ {i} : proc'[j] = proc[j]
          /\ UNCHANGED <<env, files, access, homeErr, Endpoints>>]_vars

\* two calls that overlapped, with different hints, have both returned, one
\* with an error and one with nil
C9_Witness ==
    \E i, j \in DOMAIN proc :
        /\ i # j
        /\ Returned(i) /\ Returned(j)
        /\ hist[j].overlap
        /\ hist[i].hint = Empty /\ hist[j].hint = CaUrl
        /\ proc[i].endpointName = OvhCa
        /\ proc[i].err = MissingApplicationSecret
        /\ proc[j].err = NoError

====
